---- MODULE Spec2Model ----
(***************************************************************************)
(* MeowCamera: the detector state machine of src/lib/meowDetectorModule.ts *)
(* (class MeowDetectorModule) as a state machine.                          *)
(*                                                                         *)
(* The runtime is a single-threaded event loop.  An async method runs      *)
(* synchronously up to its first await; every await is a suspension point. *)
(* A call suspended on a promise that is already resolved (the start that  *)
(* awaits a stopListening() which had nothing to close) resumes in a       *)
(* microtask: before it resumes only the synchronous code of the caller    *)
(* can run, so only API calls may precede it.  A call suspended on the     *)
(* capture resource or on the extraction capability resumes in a later     *)
(* turn of the loop, in any order with the other events.                   *)
(***************************************************************************)
EXTENDS Integers, Sequences, FiniteSets, TLC

\* ---- bounds of the exploration ----
\* startListening(), stopListening() and destroy() calls, timer firings and
\* metering updates, all together; the k-th of them has number k, and a
\* startListening() call passes the callback that bears its number
MaxCalls == 3
MaxInst  == MaxCalls + 1

\* ---- program constants (confidence and quality in hundredths) ----
rmsThreshold                 == 5      \* 0.05, amplitudes in hundredths
spectralCentroidMinThreshold == 150
spectralCentroidMaxThreshold == 1200
SimpleThresholdDb            == -30
SimpleMinInterval            == 3000
Epoch                        == 10000  \* Date.now() when the program starts (ms)

Idle       == "Idle"
Recording  == "Recording"
Processing == "Processing"
Error      == "Error"
MeowDetectorState == {Idle, Recording, Processing, Error}

SIMPLE_AMPLITUDE   == "simple_amplitude"
ADVANCED_FEATURES  == "advanced_features"
SMART_FILTER       == "smart_filter"
ADAPTIVE_THRESHOLD == "adaptive_threshold"
COMBINED_FILTER    == "combined_filter"
DetectionMode == {SIMPLE_AMPLITUDE, ADVANCED_FEATURES, SMART_FILTER,
                  ADAPTIVE_THRESHOLD, COMBINED_FILTER}

Inst == 1..MaxInst

VARIABLES
  instance,     \* MeowDetectorModule.instance: 0 is null, else the instance
  created,      \* number of instances constructed so far
  state,        \* this.state of every instance
  recording,    \* this.recording of every instance: a capture handle or 0 (null)
  timer,        \* this.timer of every instance: an interval timer or 0 (null)
  detectionMode,          \* this.detectionMode of every instance
  lastMeowDetectionTime,  \* this.lastMeowDetectionTime of every instance
  handles,      \* the capture handles opened so far: owner, callback, status
  timers,       \* the interval timers that are installed (not cleared)
  nTimers,      \* number of interval timers created so far
  tasks,        \* the suspended async calls
  count,        \* number of calls and events so far
  now,          \* the clock at its latest reading (ms)
  last,         \* what the latest step was and which callbacks it invoked
  stopDone,     \* history: a stop that raced with no start has resolved and
                \* startListening was not called since
  racedStart,   \* history: stopListening was called while a start was pending
  lateStart,    \* history: startListening was accepted on an instance that
                \* destroy() had released
  smartFilter,        \* this.smartFilter of every instance
  adaptiveThreshold,  \* this.adaptiveThreshold of every instance
  combinedFilter,     \* this.combinedFilter of every instance
  simpleFires,        \* history: Date.now() of every trigger accepted in
                      \* SIMPLE_AMPLITUDE mode, per instance
  script,       \* the timestamped levels still to be delivered, when the input
                \* is a given sequence
  fed           \* history: the levels of the sequence delivered so far and
                \* the verdict on each

evaluators == <<smartFilter, adaptiveThreshold, combinedFilter>>

vars == <<instance, created, state, recording, timer, detectionMode,
          lastMeowDetectionTime, handles, timers, nTimers, tasks, count, now,
          last, stopDone, racedStart, lateStart, evaluators, simpleFires, script, fed>>

\* ---- callback invocations ----
NoResult == [isMeow |-> FALSE, confidence |-> -1, amplitude |-> -1,
             spectralCentroidMean |-> -1, recordingQuality |-> -1]

EvState(s)       == [type |-> "onStateChange", st |-> s, cb |-> 0, res |-> NoResult]
EvError          == [type |-> "onError", st |-> "", cb |-> 0, res |-> NoResult]
EvCallback(c, r) == [type |-> "callback", st |-> "", cb |-> c, res |-> r]
EvDetected(r)    == [type |-> "onMeowDetected", st |-> "", cb |-> 0, res |-> r]

\* fault: the awaited external call threw; rejected: the async call ended by
\* rejecting its promise
StepF(op, i, c, evs, fault, rejected) ==
  [op |-> op, inst |-> i, cb |-> c, events |-> evs, fault |-> fault,
   rejected |-> rejected]
Step(op, i, c, evs) == StepF(op, i, c, evs, FALSE, FALSE)

\* ---- suspended calls ----
\* id is the number of the call or event that created the task
Task(id, kind, i, c, pc, h) ==
  [id |-> id, kind |-> kind, inst |-> i, cb |-> c, pc |-> pc, h |-> h,
   stale |-> FALSE]

\* a start that awaits an already finished stopListening() resumes in a microtask
MicrotaskPending == \E t \in tasks : t.pc = "afterStop"

InFlight(i) == {t \in tasks : t.inst = i}

Open(h) == handles[h].st # "closed"
OpenHandles == {h \in 1..Len(handles) : Open(h)}

\* ---- the evaluators of audioFilters (src/unnamed/part_005) ----
\* Levels are whole dBFS and times are ms.  Scores are in hundredths; the
\* weighted score is in thousandths (the sums of the code are exact at these
\* values in double precision).  A standard deviation is compared through the
\* variance times n squared, n * sum(b^2) - sum(b)^2, which is exact.
HISTORY_SIZE     == 10
MIN_INTERVAL     == 2000
SmartFloorDb     == -40
SmartTriggerSize == 10

RECURSIVE Sum(_)
Sum(q) == IF q = <<>> THEN 0 ELSE Head(q) + Sum(Tail(q))
RECURSIVE SumSq(_)
SumSq(q) == IF q = <<>> THEN 0 ELSE Head(q) * Head(q) + SumSq(Tail(q))
RECURSIVE MaxOf(_)
MaxOf(q) == IF Len(q) = 1 THEN Head(q)
            ELSE IF Head(q) > MaxOf(Tail(q)) THEN Head(q) ELSE MaxOf(Tail(q))

\* variance of q times Len(q) squared
VarianceN2(q) == Len(q) * SumSq(q) - Sum(q) * Sum(q)

\* a buffer that never evicts
Push_grow(q, x, cap) == Append(q, x)

\* push, then shift while longer than cap
Push(q, x, cap) == IF Len(q) + 1 > cap THEN Tail(Append(q, x)) ELSE Append(q, x)

\* new SmartMeowFilter()
SmartMeowFilter == [amplitudeHistory |-> <<>>, triggerHistory |-> <<>>]

\* lines 73-106, on the history that already holds the current sample
analyzeAmplitudePattern(h, currentMetering) ==
  IF Len(h) < 3 THEN 0
  ELSE LET n    == Len(h)
           rise == h[n] - h[n - 2]
           sc   == (IF rise > 10 THEN 40 ELSE 0)
                   + (IF currentMetering * n > Sum(h) + 5 * n THEN 30 ELSE 0)
                   + (IF currentMetering >= -30 /\ currentMetering <= -10 THEN 30 ELSE 0)
       IN  IF sc > 100 THEN 100 ELSE sc

\* lines 111-134
analyzeTimePattern(triggerHistory, t) ==
  IF triggerHistory = <<>> THEN 50
  ELSE LET interval == t - triggerHistory[Len(triggerHistory)]
       IN  IF interval < MIN_INTERVAL THEN 0
           ELSE IF interval >= 2000 /\ interval <= 10000 THEN 80
           ELSE 100

\* lines 139-161
analyzeVariationPattern(h) ==
  IF Len(h) < 3 THEN 50
  ELSE IF VarianceN2(h) < 4 * Len(h) * Len(h) THEN 20
  ELSE IF VarianceN2(h) <= 100 * Len(h) * Len(h) THEN 90
  ELSE 50

\* a filter that finds no level too quiet
TooQuiet_never(metering) == FALSE

\* lines 36-38
TooQuiet(metering) == metering < SmartFloorDb

\* lines 34-68: the filter after the sample and its verdict, t is Date.now()
shouldTriggerDetection(f, metering, t) ==
  IF TooQuiet(metering) THEN [f |-> f, fire |-> FALSE]
  ELSE LET h     == Push(f.amplitudeHistory, metering, HISTORY_SIZE)
           score == 5 * analyzeAmplitudePattern(h, metering)
                    + 3 * analyzeTimePattern(f.triggerHistory, t)
                    + 2 * analyzeVariationPattern(h)
       IN  IF score > 600
             THEN [f |-> [amplitudeHistory |-> h,
                          triggerHistory |-> Push(f.triggerHistory, t, SmartTriggerSize)],
                   fire |-> TRUE]
             ELSE [f |-> [amplitudeHistory |-> h, triggerHistory |-> f.triggerHistory],
                   fire |-> FALSE]

\* ---- AdaptiveThreshold ----
\* noiseFloor is a double in the code; here it is kept in 1/FloorScale dB and
\* the exponential average is rounded down to that grid
WINDOW_SIZE      == 100
PEAK_WINDOW      == 10
InitialFloorDb   == -60
AdaptiveFloorDb  == -40
Debounce         == 1000
PeakHistorySize  == 5
FloorScale       == 10000

\* new AdaptiveThreshold()
AdaptiveThreshold ==
  [noiseFloor |-> InitialFloorDb * FloorScale, recentPeaks |-> <<>>,
   recentValues |-> <<>>, lastTriggerTime |-> 0]

\* sorted[Math.floor(sorted.length / 2)] of the ascending sort
Median(q) ==
  LET k == Len(q) \div 2
  IN  CHOOSE v \in {q[j] : j \in 1..Len(q)} :
        /\ Cardinality({j \in 1..Len(q) : q[j] < v}) <= k
        /\ Cardinality({j \in 1..Len(q) : q[j] <= v}) > k

\* a floor that never follows the levels
UpdatedNoiseFloor_frozen(noiseFloor, recentValues) == noiseFloor

\* lines 199-204
UpdatedNoiseFloor(noiseFloor, recentValues) ==
  IF Len(recentValues) >= 10
    THEN (95 * noiseFloor + 5 * Median(recentValues) * FloorScale) \div 100
    ELSE noiseFloor

\* lines 238-256
calculateDynamicMargin(recentValues) ==
  IF Len(recentValues) < 20 THEN 20
  ELSE IF VarianceN2(recentValues) < 4 * Len(recentValues) * Len(recentValues) THEN 15
  ELSE IF VarianceN2(recentValues) < 25 * Len(recentValues) * Len(recentValues) THEN 20
  ELSE 25

\* lines 261-276, on the values that already hold the current one
isSignificantPeak(recentValues, current) ==
  IF Len(recentValues) < PEAK_WINDOW THEN current > -30
  ELSE LET n == Len(recentValues)
           recentWindow == SubSeq(recentValues, n - PEAK_WINDOW + 1, n - 1)
       IN  \/ current > MaxOf(recentWindow) + 3
           \/ current * Len(recentWindow) > Sum(recentWindow) + 10 * Len(recentWindow)

\* lines 191-232: the evaluator after the sample and its verdict, t is Date.now()
updateAndCheck(f, metering, t) ==
  LET values    == Push(f.recentValues, metering, WINDOW_SIZE)
      floor     == UpdatedNoiseFloor(f.noiseFloor, values)
      threshold == floor + calculateDynamicMargin(values) * FloorScale
      g         == [f EXCEPT !.recentValues = values, !.noiseFloor = floor]
  IN  IF metering * FloorScale < threshold \/ metering < AdaptiveFloorDb
        THEN [f |-> g, fire |-> FALSE]
      ELSE IF isSignificantPeak(values, metering) /\ t - f.lastTriggerTime > Debounce
        THEN [f |-> [g EXCEPT !.lastTriggerTime = t,
                              !.recentPeaks = Push(f.recentPeaks, metering, PeakHistorySize)],
              fire |-> TRUE]
      ELSE [f |-> g, fire |-> FALSE]

\* ---- CombinedFilter ----
\* new CombinedFilter()
CombinedFilter == [smartFilter |-> SmartMeowFilter, adaptiveThreshold |-> AdaptiveThreshold]

\* a combination that asks the adaptive evaluator only when the smart one fired
shouldTrigger_lazy(f, metering, filterType, t) ==
  LET sm == shouldTriggerDetection(f.smartFilter, metering, t)
      ad == updateAndCheck(f.adaptiveThreshold, metering, t)
  IN  IF sm.fire
        THEN [f |-> [smartFilter |-> sm.f, adaptiveThreshold |-> ad.f], fire |-> ad.fire]
        ELSE [f |-> [f EXCEPT !.smartFilter = sm.f], fire |-> FALSE]

\* lines 319-337
shouldTrigger(f, metering, filterType, t) ==
  LET sm == shouldTriggerDetection(f.smartFilter, metering, t)
      ad == updateAndCheck(f.adaptiveThreshold, metering, t)
  IN  CASE filterType = "smart" ->
             [f |-> [f EXCEPT !.smartFilter = sm.f], fire |-> sm.fire]
        [] filterType = "adaptive" ->
             [f |-> [f EXCEPT !.adaptiveThreshold = ad.f], fire |-> ad.fire]
        [] filterType = "both" ->
             [f |-> [smartFilter |-> sm.f, adaptiveThreshold |-> ad.f],
              fire |-> sm.fire /\ ad.fire]
        [] OTHER -> [f |-> f, fire |-> FALSE]

Init ==
  /\ instance = 0
  /\ created = 0
  /\ state = [i \in Inst |-> Idle]
  /\ recording = [i \in Inst |-> 0]
  /\ timer = [i \in Inst |-> 0]
  /\ detectionMode = [i \in Inst |-> SIMPLE_AMPLITUDE]
  /\ lastMeowDetectionTime = [i \in Inst |-> 0]
  /\ handles = <<>>
  /\ timers = {}
  /\ nTimers = 0
  /\ tasks = {}
  /\ count = 0
  /\ now = Epoch
  /\ last = Step("init", 0, 0, <<>>)
  /\ stopDone = [i \in Inst |-> FALSE]
  /\ racedStart = [i \in Inst |-> FALSE]
  /\ lateStart = [i \in Inst |-> FALSE]
  /\ smartFilter = [i \in Inst |-> SmartMeowFilter]
  /\ adaptiveThreshold = [i \in Inst |-> AdaptiveThreshold]
  /\ combinedFilter = [i \in Inst |-> CombinedFilter]
  /\ simpleFires = [i \in Inst |-> <<>>]
  /\ script = <<>>
  /\ fed = <<>>

\* ---- getInstance(config) ----
\* with an instance present only its config is replaced, by an equal one
getInstance ==
  /\ IF instance = 0
       THEN /\ created < MaxInst
            /\ created' = created + 1
            /\ instance' = created + 1
            /\ last' = Step("getInstance", created + 1, 0, <<>>)
       ELSE UNCHANGED <<instance, created, last>>
  /\ UNCHANGED <<state, recording, timer, detectionMode, lastMeowDetectionTime,
                 handles, timers, nTimers, tasks, count, now, stopDone, racedStart, lateStart, evaluators, simpleFires, script, fed>>

\* ---- stopListening(), the part before its first await ----
\* clearInterval(this.timer); this.timer = null
TimersCleared(i) == {tm \in timers : tm.id # timer[i]}

\* history kept in the tasks: stale marks an analysis pass or an extraction
\* that was in flight when a stop completed, and a stop that ran while a start
\* was pending or during which startListening was called
MarkStale(i) ==
  {IF t.inst = i /\ t.kind \in {"tick", "sample"} THEN [t EXCEPT !.stale = TRUE] ELSE t
     : t \in tasks}
MarkStops(i) ==
  {IF t.inst = i /\ t.kind = "stop" THEN [t EXCEPT !.stale = TRUE] ELSE t : t \in tasks}

\* ---- startListening(callback) up to its first await ----
\* a guard that looks at the timer instead of the state
AlreadyListening_timer(i) == timer[i] # 0

\* the guard of line 128
AlreadyListening(i) == state[i] # Idle

startListeningCall(i, c) ==
  /\ i \in 1..created
  /\ IF AlreadyListening(i)
    THEN /\ last' = Step("startIgnored", i, c, <<>>)
         /\ UNCHANGED <<instance, created, state, recording, timer, detectionMode,
                        lastMeowDetectionTime, handles, timers, nTimers, tasks,
                        now, stopDone, racedStart, lateStart, evaluators, simpleFires, script, fed>>
    ELSE \* await this.stopListening(): its synchronous part runs here
         /\ timers' = TimersCleared(i)
         /\ timer' = [timer EXCEPT ![i] = 0]
         /\ IF recording[i] # 0
              THEN /\ tasks' = MarkStops(i) \cup
                                {Task(c, "start", i, c, "inStop", recording[i])}
                   /\ last' = Step("start", i, c, <<>>)
                   /\ UNCHANGED state
              ELSE /\ tasks' = MarkStops(i) \cup {Task(c, "start", i, c, "afterStop", 0)}
                   /\ state' = [state EXCEPT ![i] = Idle]
                   /\ last' = Step("start", i, c, <<EvState(Idle)>>)
         /\ stopDone' = [stopDone EXCEPT ![i] = FALSE]
         /\ racedStart' = [racedStart EXCEPT ![i] = FALSE]
         /\ lateStart' = [lateStart EXCEPT ![i] = @ \/ instance # i]
         /\ UNCHANGED <<instance, created, recording, detectionMode,
                        lastMeowDetectionTime, handles, nTimers, now,
                        evaluators, simpleFires, script, fed>>

\* a startListening(callback) call, numbered by the count of calls and events
startListening(i) ==
  /\ count < MaxCalls
  /\ count' = count + 1
  /\ startListeningCall(i, count + 1)

\* lines 138-146: state = Recording, onStateChange, Audio.Recording.createAsync
\* is called and awaited
startResume(t) ==
  /\ t \in tasks /\ t.kind = "start" /\ t.pc = "afterStop"
  /\ state' = [state EXCEPT ![t.inst] = Recording]
  /\ tasks' = (tasks \ {t}) \cup {[t EXCEPT !.pc = "create"]}
  /\ last' = Step("startResume", t.inst, t.cb, <<EvState(Recording)>>)
  /\ UNCHANGED <<instance, created, recording, timer, detectionMode,
                 lastMeowDetectionTime, handles, timers, nTimers, count, now,
                 stopDone, racedStart, lateStart, evaluators, simpleFires, script, fed>>

\* ---- lines 314-323: the catch of startListening ----
StartFailedState(i) == [state EXCEPT ![i] = Error]

\* a catch that reports the state change but not the error
StartFailedEvents_silent == <<EvState(Error)>>

StartFailedEvents == <<EvState(Error), EvError>>

\* Audio.Recording.createAsync has completed (lines 146-234, 314-323)
createDone(t, ok) ==
  /\ t \in tasks /\ t.kind = "start" /\ t.pc = "create"
  /\ ~MicrotaskPending
  /\ IF ok
       THEN LET h == Len(handles) + 1 IN
            /\ handles' = Append(handles, [inst |-> t.inst, cb |-> t.cb, st |-> "open"])
            /\ recording' = [recording EXCEPT ![t.inst] = h]
            /\ tasks' = (tasks \ {t}) \cup {[t EXCEPT !.pc = "startAsync", !.h = h]}
            /\ last' = Step("createDone", t.inst, t.cb, <<>>)
            /\ UNCHANGED state
       ELSE /\ state' = StartFailedState(t.inst)
            /\ tasks' = tasks \ {t}
            /\ last' = StepF("startFailed", t.inst, t.cb, StartFailedEvents, TRUE, FALSE)
            /\ UNCHANGED <<handles, recording>>
  /\ UNCHANGED <<instance, created, timer, detectionMode, lastMeowDetectionTime,
                 timers, nTimers, count, now, stopDone, racedStart, lateStart, evaluators, simpleFires, script, fed>>

\* this.recording.startAsync() has completed (lines 237-250, 314-323)
startAsyncDone(t, ok) ==
  /\ t \in tasks /\ t.kind = "start" /\ t.pc = "startAsync"
  /\ ~MicrotaskPending
  /\ IF ok
       THEN \* lines 241-247, then setInterval (line 250)
            /\ state' = [state EXCEPT ![t.inst] = Recording]
            /\ nTimers' = nTimers + 1
            /\ timer' = [timer EXCEPT ![t.inst] = nTimers + 1]
            /\ timers' = timers \cup {[id |-> nTimers + 1, inst |-> t.inst, cb |-> t.cb]}
            /\ last' = Step("started", t.inst, t.cb,
                            IF state[t.inst] # Recording THEN <<EvState(Recording)>> ELSE <<>>)
       ELSE /\ state' = StartFailedState(t.inst)
            /\ last' = StepF("startFailed", t.inst, t.cb, StartFailedEvents, TRUE, FALSE)
            /\ UNCHANGED <<timer, timers, nTimers>>
  /\ tasks' = tasks \ {t}
  /\ UNCHANGED <<instance, created, recording, detectionMode, lastMeowDetectionTime,
                 handles, count, now, stopDone, racedStart, lateStart, evaluators, simpleFires, script, fed>>

\* ---- stopListening() ----
StartPending(i) == \E t \in tasks : t.kind = "start" /\ t.inst = i

\* a stop that clears the reference after the await instead of in a finally
RecordingAfterStop_nofinally(i, ok) == IF ok THEN [recording EXCEPT ![i] = 0] ELSE recording

\* lines 345-350: the reference is cleared in a finally block
RecordingAfterStop(i, ok) == [recording EXCEPT ![i] = 0]

\* lines 356-360
StopEvents == <<EvState(Idle)>>

\* stopAndUnloadAsync() has completed: the handle is released whether the call
\* resolved or threw
Closed(h) == [handles EXCEPT ![h].st = "closed"]

\* lines 345-360 inside a start: the stop finishes (recording = null, Idle),
\* then the start goes on to lines 138-146
startStopDone(t, ok) ==
  /\ t \in tasks /\ t.kind = "start" /\ t.pc = "inStop"
  /\ ~MicrotaskPending
  /\ handles' = Closed(t.h)
  /\ recording' = RecordingAfterStop(t.inst, ok)
  /\ state' = [state EXCEPT ![t.inst] = Recording]
  /\ tasks' = (MarkStale(t.inst) \ {t}) \cup {[t EXCEPT !.pc = "create", !.h = 0]}
  /\ last' = StepF("startResume", t.inst, t.cb, <<EvState(Idle), EvState(Recording)>>,
                    ~ok, FALSE)
  /\ UNCHANGED <<instance, created, timer, detectionMode, lastMeowDetectionTime,
                 timers, nTimers, count, now, stopDone, racedStart, lateStart, evaluators, simpleFires, script, fed>>

stopListeningCall(i, id) ==
  /\ i \in 1..created
  /\ timers' = TimersCleared(i)
  /\ timer' = [timer EXCEPT ![i] = 0]
  /\ racedStart' = [racedStart EXCEPT ![i] = @ \/ StartPending(i)]
  /\ IF recording[i] # 0
       THEN /\ tasks' = tasks \cup
                         {[Task(id, "stop", i, 0, "unload", recording[i])
                             EXCEPT !.stale = StartPending(i)]}
            /\ last' = Step("stop", i, 0, <<>>)
            /\ UNCHANGED <<state, stopDone>>
       ELSE /\ state' = [state EXCEPT ![i] = Idle]
            /\ tasks' = MarkStale(i)
            /\ stopDone' = [stopDone EXCEPT ![i] = ~StartPending(i)]
            /\ last' = Step("stopped", i, 0, StopEvents)
  /\ UNCHANGED <<instance, created, recording, detectionMode, lastMeowDetectionTime,
                 handles, nTimers, now, lateStart, evaluators, simpleFires, script, fed>>

\* a stopListening() call, numbered by the count of calls and events
stopListening(i) ==
  /\ count < MaxCalls
  /\ count' = count + 1
  /\ stopListeningCall(i, count + 1)

\* this.recording.stopAndUnloadAsync() has completed (lines 343-360)
stopListeningDone(t, ok) ==
  /\ t \in tasks /\ t.kind = "stop" /\ t.pc = "unload"
  /\ ~MicrotaskPending
  /\ handles' = Closed(t.h)
  /\ recording' = RecordingAfterStop(t.inst, ok)
  /\ state' = [state EXCEPT ![t.inst] = Idle]
  /\ tasks' = MarkStale(t.inst) \ {t}
  /\ stopDone' = [stopDone EXCEPT ![t.inst] = ~t.stale]
  /\ last' = StepF("stopped", t.inst, 0, StopEvents, ~ok, FALSE)
  /\ UNCHANGED <<instance, created, timer, detectionMode, lastMeowDetectionTime,
                 timers, nTimers, count, now, racedStart, lateStart, evaluators, simpleFires, script, fed>>

\* ---- static destroy() ----
destroy ==
  /\ count < MaxCalls
  /\ instance # 0
  /\ timers' = TimersCleared(instance)
  /\ timer' = [timer EXCEPT ![instance] = 0]
  /\ IF recording[instance] # 0
       THEN /\ tasks' = tasks \cup {Task(count + 1, "destroy", instance, 0,
                                          "unload", recording[instance])}
            /\ count' = count + 1
            /\ last' = Step("destroy", instance, 0, <<>>)
            /\ UNCHANGED instance
       ELSE /\ instance' = 0
            /\ count' = count + 1
            /\ last' = Step("destroyed", instance, 0, <<>>)
            /\ UNCHANGED tasks
  /\ UNCHANGED <<created, state, recording, detectionMode, lastMeowDetectionTime,
                 handles, nTimers, now, stopDone, racedStart, lateStart, evaluators, simpleFires, script, fed>>

\* stopAndUnloadAsync() has completed inside destroy (lines 381-392); the
\* finally block reads MeowDetectorModule.instance again and throws when it is null
destroyDone(t, ok) ==
  /\ t \in tasks /\ t.kind = "destroy" /\ t.pc = "unload"
  /\ ~MicrotaskPending
  /\ handles' = Closed(t.h)
  /\ tasks' = tasks \ {t}
  /\ IF instance # 0
       THEN /\ recording' = [recording EXCEPT ![instance] = 0]
            /\ instance' = 0
            /\ last' = StepF("destroyed", t.inst, 0, <<>>, ~ok, FALSE)
       ELSE /\ last' = StepF("destroyed", t.inst, 0, <<>>, ~ok, TRUE)
            /\ UNCHANGED <<recording, instance>>
  /\ UNCHANGED <<created, state, timer, detectionMode, lastMeowDetectionTime,
                 timers, nTimers, count, now, stopDone, racedStart, lateStart, evaluators, simpleFires, script, fed>>

\* ---- deep analysis: analyzeAudio() and detectMeow() ----
\* what extractAudioAnalysis can report: rms.mean in hundredths and
\* spectralCentroid.mean in Hz; 0 stands for a zero or an omitted field, which
\* the code cannot tell apart (x?.mean || default)
RmsValues      == {1, 10}
CentroidValues == {500}
Analyses == [rms : RmsValues, centroid : CentroidValues]

\* Math.random() in hundredths
Randoms == {0, 99}

detectMeow(rms, spectralCentroid) ==
  LET hasSignificantVolume == rms > rmsThreshold
      isInFrequencyRange   == /\ spectralCentroid >= spectralCentroidMinThreshold
                              /\ spectralCentroid <= spectralCentroidMaxThreshold
  IN  hasSignificantVolume /\ isInFrequencyRange

\* lines 443-482: the result built from a returned analysis
analyzeAudioResult(a) ==
  LET rms == IF a.rms # 0 THEN a.rms ELSE 10
      spectralCentroid == IF a.centroid # 0 THEN a.centroid ELSE 500
      isMeow == detectMeow(rms, spectralCentroid)
  IN  [isMeow |-> isMeow, confidence |-> IF isMeow THEN 85 ELSE 30,
       amplitude |-> rms, spectralCentroidMean |-> spectralCentroid,
       recordingQuality |-> 90]

\* a fallback that reuses the confidence of a negative verdict
analyzeAudioFallback_conf ==
  [isMeow |-> FALSE, confidence |-> 30, amplitude |-> 5,
   spectralCentroidMean |-> 0, recordingQuality |-> 50]

\* lines 483-498: the result returned when anything inside analyzeAudio throws
analyzeAudioFallback ==
  [isMeow |-> FALSE, confidence |-> 0, amplitude |-> 5,
   spectralCentroidMean |-> 0, recordingQuality |-> 50]

\* lines 276-293: what the tick does with the result of analyzeAudio
TickState(i) == [state EXCEPT ![i] = Recording]
\* an analysis pass that keeps its result to itself
TickEvents_quiet(c, res) == <<EvState(Recording)>>

TickEvents(c, res) == <<EvCallback(c, res), EvDetected(res), EvState(Recording)>>

\* the interval callback fires (lines 250-275 and analyzeAudio up to line 417).
\* The catch of lines 295-311 runs only if analyzeAudio rejects or a caller's
\* callback throws; analyzeAudio rejects only when this.recording is null on
\* entry, which the test of line 266 excludes.
timerCallback(tm, id) ==
  /\ tm \in timers
  /\ ~MicrotaskPending
  /\ IF recording[tm.inst] # 0
       THEN /\ state' = [state EXCEPT ![tm.inst] = Processing]
            /\ tasks' = tasks \cup {Task(id, "tick", tm.inst, tm.cb,
                                          "status", recording[tm.inst])}
            /\ last' = Step("tick", tm.inst, tm.cb,
                            (IF state[tm.inst] # Recording THEN <<EvState(Recording)>>
                                                           ELSE <<>>)
                            \o <<EvState(Processing)>>)
       ELSE /\ last' = Step("tickDone", tm.inst, tm.cb, <<>>)
            /\ UNCHANGED <<state, tasks>>
  /\ UNCHANGED <<instance, created, recording, timer, detectionMode,
                 lastMeowDetectionTime, handles, timers, nTimers, now,
                 stopDone, racedStart, lateStart, evaluators, simpleFires, script, fed>>

\* a firing of the timer, numbered by the count of calls and events
tick(tm) ==
  /\ count < MaxCalls
  /\ count' = count + 1
  /\ timerCallback(tm, count + 1)

\* getStatusAsync() has completed (lines 417-431): it threw, or this.recording
\* is null by now (getURI on null throws), or there is no URI, or the
\* extraction is requested
tickStatusDone(t, outcome) ==
  /\ t \in tasks /\ t.kind = "tick" /\ t.pc = "status"
  /\ ~MicrotaskPending
  /\ outcome \in {"ok", "throw", "nouri"}
  /\ IF outcome = "ok" /\ recording[t.inst] # 0
       THEN /\ tasks' = (tasks \ {t}) \cup {[t EXCEPT !.pc = "extract"]}
            /\ last' = Step("tickStatus", t.inst, t.cb, <<>>)
            /\ UNCHANGED state
       ELSE /\ tasks' = tasks \ {t}
            /\ state' = TickState(t.inst)
            /\ last' = StepF("tickDone", t.inst, t.cb,
                             TickEvents(t.cb, analyzeAudioFallback), TRUE, FALSE)
  /\ UNCHANGED <<instance, created, recording, timer, detectionMode,
                 lastMeowDetectionTime, handles, timers, nTimers, count, now,
                 stopDone, racedStart, lateStart, evaluators, simpleFires, script, fed>>

\* extractAudioAnalysis has completed inside analyzeAudio (lines 431-499),
\* then the tick delivers the result (lines 276-293)
tickExtractDone(t, ok) ==
  /\ t \in tasks /\ t.kind = "tick" /\ t.pc = "extract"
  /\ ~MicrotaskPending
  /\ tasks' = tasks \ {t}
  /\ state' = TickState(t.inst)
  /\ IF ok
       THEN \E a \in Analyses :
              last' = Step("tickDone", t.inst, t.cb, TickEvents(t.cb, analyzeAudioResult(a)))
       ELSE last' = StepF("tickDone", t.inst, t.cb,
                         TickEvents(t.cb, analyzeAudioFallback), TRUE, FALSE)
  /\ UNCHANGED <<instance, created, recording, timer, detectionMode,
                 lastMeowDetectionTime, handles, timers, nTimers, count, now,
                 stopDone, racedStart, lateStart, evaluators, simpleFires, script, fed>>

\* ---- the per-sample path: the status callback of lines 148-231 ----
Meterings == {-50, -30}     \* dBFS readings delivered
Deltas    == {0, 3000}      \* ms elapsed since the previous clock reading

\* a decision that wants the level strictly above the threshold
ShouldTrigger_above(mode, sf, at, cf, metering, t) ==
  [fire |-> metering > SimpleThresholdDb,
   after |-> [smartFilter |-> sf, adaptiveThreshold |-> at, combinedFilter |-> cf]]

\* lines 156-181: the decision of the active strategy on a level read at time
\* t, and the evaluators after it
ShouldTrigger(mode, sf, at, cf, metering, t) ==
  LET same == [smartFilter |-> sf, adaptiveThreshold |-> at, combinedFilter |-> cf]
      sm   == shouldTriggerDetection(sf, metering, t)
      ad   == updateAndCheck(at, metering, t)
      co   == shouldTrigger(cf, metering, "both", t)
  IN  CASE mode = SIMPLE_AMPLITUDE ->
             [fire |-> metering >= SimpleThresholdDb, after |-> same]
        [] mode = SMART_FILTER ->
             [fire |-> sm.fire, after |-> [same EXCEPT !.smartFilter = sm.f]]
        [] mode = ADAPTIVE_THRESHOLD ->
             [fire |-> ad.fire, after |-> [same EXCEPT !.adaptiveThreshold = ad.f]]
        [] mode = COMBINED_FILTER ->
             [fire |-> co.fire, after |-> [same EXCEPT !.combinedFilter = co.f]]
        [] mode = ADVANCED_FEATURES ->
             [fire |-> metering >= SimpleThresholdDb, after |-> same]

\* line 187
\* no re-fire interval in any mode
MinInterval_none(mode) == 0

MinInterval(mode) == IF mode = SIMPLE_AMPLITUDE THEN SimpleMinInterval ELSE 0

\* lines 549-561: features taken from a returned analysis
RealtimeFeatures(a) ==
  [amplitude |-> IF a.rms # 0 THEN a.rms ELSE 30,
   spectralCentroidMean |-> IF a.centroid # 0 THEN a.centroid ELSE 700,
   recordingQuality |-> 90]

getBasicFeaturesFromMetering ==
  [amplitude |-> 30, spectralCentroidMean |-> 700, recordingQuality |-> 70]

\* lines 616-639; r1, r2, r3 are three draws of Math.random()
generateMockMeowFeatures(r1, r2, r3) ==
  [amplitude |-> 20 + (r1 * 30) \div 100,
   spectralCentroidMean |-> 500 + (r2 * 400) \div 100,
   recordingQuality |-> 80 + (r3 * 20) \div 100]

\* a trigger whose random part spans 0.35
TriggerResult_wide(f, r) ==
  [isMeow |-> TRUE, confidence |-> 70 + (r * 35) \div 100,
   amplitude |-> f.amplitude, spectralCentroidMean |-> f.spectralCentroidMean,
   recordingQuality |-> f.recordingQuality]

\* lines 198-204 and 215-221: the event of a trigger; r is a draw of Math.random()
TriggerResult(f, r) ==
  [isMeow |-> TRUE, confidence |-> 70 + (r * 25) \div 100,
   amplitude |-> f.amplitude, spectralCentroidMean |-> f.spectralCentroidMean,
   recordingQuality |-> f.recordingQuality]

\* a handler that builds the event and delivers it to nobody
SampleEvents_none(c, res) == <<>>

\* lines 207-210 and 223-226
SampleEvents(c, res) == <<EvCallback(c, res), EvDetected(res)>>

\* a status update with isRecording and a metering value arrives for handle h
\* (lines 148-195 and extractRealtimeFeatures up to line 535).  With no
\* this.recording extractRealtimeFeatures rejects and the handler falls back to
\* mock features; with no URI it returns the basic features.
onRecordingStatusUpdate(h, metering, dt, id) ==
  /\ h \in OpenHandles
  /\ ~MicrotaskPending
  /\ now' = now + dt
  /\ LET i == handles[h].inst
         c == handles[h].cb
         verdict == ShouldTrigger(detectionMode[i], smartFilter[i], adaptiveThreshold[i],
                                  combinedFilter[i], metering, now')
         fire == /\ verdict.fire
                 /\ now' - lastMeowDetectionTime[i] >= MinInterval(detectionMode[i])
     IN
     /\ smartFilter' = [smartFilter EXCEPT ![i] = verdict.after.smartFilter]
     /\ adaptiveThreshold' =
          [adaptiveThreshold EXCEPT ![i] = verdict.after.adaptiveThreshold]
     /\ combinedFilter' = [combinedFilter EXCEPT ![i] = verdict.after.combinedFilter]
     /\ lastMeowDetectionTime' =
          IF fire THEN [lastMeowDetectionTime EXCEPT ![i] = now'] ELSE lastMeowDetectionTime
     /\ simpleFires' =
          IF fire /\ detectionMode[i] = SIMPLE_AMPLITUDE
            THEN [simpleFires EXCEPT ![i] = Append(@, now')] ELSE simpleFires
     /\ fed' = IF script # <<>> THEN Append(fed, [metering |-> metering, fire |-> fire, at |-> now'])
                               ELSE fed
     /\ IF ~fire
          THEN /\ last' = Step("sample", i, c, <<>>)
               /\ UNCHANGED tasks
          ELSE IF recording[i] = 0
          THEN /\ \E r \in Randoms, r1 \in Randoms, r2 \in Randoms, r3 \in Randoms :
                    last' = StepF("sampleDone", i, c,
                              SampleEvents(c, TriggerResult(
                                  generateMockMeowFeatures(r1, r2, r3), r)),
                              TRUE, FALSE)
               /\ UNCHANGED tasks
          ELSE \/ \* getURI() returns null
                  /\ \E r \in Randoms :
                       last' = StepF("sampleDone", i, c,
                                 SampleEvents(c, TriggerResult(getBasicFeaturesFromMetering, r)),
                                 TRUE, FALSE)
                  /\ UNCHANGED tasks
               \/ \* extractAudioAnalysis is called and awaited
                  /\ tasks' = tasks \cup
                               {Task(id, "sample", i, c, "extract", recording[i])}
                  /\ last' = Step("sampleTrigger", i, c, <<>>)
  /\ UNCHANGED <<instance, created, state, recording, timer, detectionMode,
                 handles, timers, nTimers, stopDone, racedStart, lateStart>>

\* a status update, numbered by the count of calls and events
sample(h, metering, dt) ==
  /\ count < MaxCalls
  /\ count' = count + 1
  /\ onRecordingStatusUpdate(h, metering, dt, count + 1)
  /\ UNCHANGED script

\* a mode switch that also forgets the time of the last trigger
setDetectionModeCall_reset(i, mode) ==
  /\ i \in 1..created
  /\ detectionMode' = [detectionMode EXCEPT ![i] = mode]
  /\ lastMeowDetectionTime' = [lastMeowDetectionTime EXCEPT ![i] = 0]
  /\ last' = Step("setDetectionMode", i, 0, <<>>)
  /\ UNCHANGED <<instance, created, state, recording, timer,
                 handles, timers, nTimers, tasks, now, stopDone, racedStart,
                 lateStart, evaluators, simpleFires, script, fed>>

\* ---- setDetectionMode(mode), lines 110-113 ----
setDetectionModeCall(i, mode) ==
  /\ i \in 1..created
  /\ detectionMode' = [detectionMode EXCEPT ![i] = mode]
  /\ last' = Step("setDetectionMode", i, 0, <<>>)
  /\ UNCHANGED <<instance, created, state, recording, timer, lastMeowDetectionTime,
                 handles, timers, nTimers, tasks, now, stopDone, racedStart,
                 lateStart, evaluators, simpleFires, script, fed>>

setDetectionMode(i, mode) ==
  /\ count < MaxCalls
  /\ count' = count + 1
  /\ setDetectionModeCall(i, mode)

\* extractAudioAnalysis has completed inside extractRealtimeFeatures
\* (lines 535-566), then the handler delivers the event (lines 198-210)
sampleExtractDone(t, ok) ==
  /\ t \in tasks /\ t.kind = "sample" /\ t.pc = "extract"
  /\ ~MicrotaskPending
  /\ tasks' = tasks \ {t}
  /\ \E r \in Randoms :
       IF ok
         THEN \E a \in Analyses :
                last' = Step("sampleDone", t.inst, t.cb,
                             SampleEvents(t.cb, TriggerResult(RealtimeFeatures(a), r)))
         ELSE last' = StepF("sampleDone", t.inst, t.cb,
                           SampleEvents(t.cb, TriggerResult(getBasicFeaturesFromMetering, r)),
                           TRUE, FALSE)
  /\ UNCHANGED <<instance, created, state, recording, timer, detectionMode,
                 lastMeowDetectionTime, handles, timers, nTimers, count, now,
                 stopDone, racedStart, lateStart, evaluators, simpleFires, script, fed>>

BOOL == {TRUE, FALSE}

Next ==
  \/ getInstance
  \/ \E i \in Inst : startListening(i)
  \/ \E t \in tasks : startResume(t)
  \/ \E t \in tasks, ok \in BOOL : startStopDone(t, ok)
  \/ \E t \in tasks, ok \in BOOL : createDone(t, ok)
  \/ \E t \in tasks, ok \in BOOL : startAsyncDone(t, ok)
  \/ \E i \in Inst : stopListening(i)
  \/ \E t \in tasks, ok \in BOOL : stopListeningDone(t, ok)
  \/ destroy
  \/ \E t \in tasks, ok \in BOOL : destroyDone(t, ok)
  \/ \E tm \in timers : tick(tm)
  \/ \E t \in tasks, o \in {"ok", "throw", "nouri"} : tickStatusDone(t, o)
  \/ \E t \in tasks, ok \in BOOL : tickExtractDone(t, ok)
  \/ \E h \in 1..Len(handles), m \in Meterings, dt \in Deltas : sample(h, m, dt)
  \/ \E t \in tasks, ok \in BOOL : sampleExtractDone(t, ok)
  \/ \E i \in Inst, mode \in DetectionMode : setDetectionMode(i, mode)

Spec == Init /\ [][Next]_vars

\* ---------------------------------------------------------------------------
\* Properties
\* ---------------------------------------------------------------------------
\* the suspended call t ends in this step
Finished(t) == t \in tasks /\ \A u \in tasks' : u.id # t.id

Quiet(i) == InFlight(i) = {}

CallbackCount(evs, c) ==
  Cardinality({k \in 1..Len(evs) : evs[k].type = "callback" /\ evs[k].cb = c})
ErrorCount(evs) == Cardinality({k \in 1..Len(evs) : evs[k].type = "onError"})
Delivers(evs) ==
  \E k \in 1..Len(evs) : evs[k].type \in {"callback", "onMeowDetected"}

\* C1: once a stopListening() call has resolved, with no start pending, and
\* every analysis tick that was in flight has finished, the detector is Idle
\* and has no timer, until startListening() is called again.
C1_StopEndsIdle ==
  \A i \in Inst : (stopDone[i] /\ Quiet(i)) => (state[i] = Idle /\ timer[i] = 0)

\* C2: if stopListening() is called while a startListening() is pending, then
\* once both have resolved (and the capture did not fail to open, which ends
\* in Error) the detector is Idle, holds no capture handle, owns no open
\* handle and has no timer.
C2_StopDuringStart ==
  \A i \in Inst :
    (racedStart[i] /\ Quiet(i) /\ state[i] # Error) =>
      /\ state[i] = Idle
      /\ recording[i] = 0
      /\ timer[i] = 0
      /\ \A h \in OpenHandles : handles[h].inst # i

\* C3: at most one capture handle is open and at most one analysis timer is
\* installed, in every reachable state.
C3_OneCapture == Cardinality(OpenHandles) <= 1 /\ Cardinality(timers) <= 1

\* C4: a startListening() call made while the detector is Recording changes
\* neither the state, nor the timer, nor the capture handle, suspends nothing
\* and invokes no callback.
C4_DoubleStartNoOp ==
  [][\A i \in Inst :
       (/\ state[i] = Recording
        /\ count' = count + 1
        /\ last'.op \in {"start", "startIgnored"}
        /\ last'.inst = i)
       => (/\ state' = state
           /\ timer' = timer /\ timers' = timers
           /\ recording' = recording /\ handles' = handles
           /\ tasks' = tasks
           /\ last'.events = <<>>)]_vars

C4_Witness == last.op = "startIgnored" /\ state[last.inst] = Recording

\* C5: every firing of the analysis timer invokes the callback of its
\* startListening() call exactly once.
C5_TickCallsBackOnce ==
  last.op = "tickDone" => CallbackCount(last.events, last.cb) = 1

\* C6: when getStatusAsync, getURI or extractAudioAnalysis fails inside a tick,
\* the tick still ends normally: it delivers one event with isMeow false,
\* confidence 0 and the fallback features to the callback, leaves the timer
\* installed as it was, and sets the state to Recording.
C6_ExtractionFailureAbsorbed ==
  [][\A t \in tasks :
       (t.kind = "tick" /\ Finished(t) /\ last'.fault)
       => (/\ CallbackCount(last'.events, t.cb) = 1
           /\ \A k \in 1..Len(last'.events) :
                last'.events[k].type = "callback" =>
                  /\ last'.events[k].res.isMeow = FALSE
                  /\ last'.events[k].res.confidence = 0
                  /\ last'.events[k].res.amplitude = 5
                  /\ last'.events[k].res.spectralCentroidMean = 0
                  /\ last'.events[k].res.recordingQuality = 50
           /\ ~last'.rejected
           /\ timer' = timer /\ timers' = timers
           /\ state'[t.inst] = Recording)]_vars

C6_Witness ==
  /\ last.op = "tickDone" /\ last.fault
  /\ CallbackCount(last.events, last.cb) = 1
  /\ state[last.inst] = Recording
  /\ \E tm \in timers : tm.inst = last.inst /\ tm.id = timer[last.inst]

\* C7: when createAsync or startAsync throws inside startListening(), the
\* state becomes Error, onError is invoked exactly once, no timer is installed
\* and nothing is retried: the call ends, suspends nothing and opens no handle.
C7_OpenFailure ==
  [][\A t \in tasks :
       (t.kind = "start" /\ Finished(t) /\ last'.fault)
       => (/\ state'[t.inst] = Error
           /\ ErrorCount(last'.events) = 1
           /\ timer' = timer /\ timers' = timers /\ nTimers' = nTimers
           /\ tasks' = tasks \ {t}
           /\ Len(handles') = Len(handles))]_vars

C7_Witness ==
  /\ last.op = "startFailed" /\ last.fault
  /\ state[last.inst] = Error
  /\ timer[last.inst] = 0
  /\ ErrorCount(last.events) = 1

\* C8: when stopAndUnloadAsync throws inside stopListening(), the call still
\* resolves, this.recording is null afterwards, the state is Idle and
\* onStateChange(Idle) has been delivered.
C8_CloseFailure ==
  [][\A t \in tasks :
       (t.kind = "stop" /\ Finished(t) /\ last'.fault)
       => (/\ ~last'.rejected
           /\ recording'[t.inst] = 0
           /\ state'[t.inst] = Idle
           /\ \E k \in 1..Len(last'.events) : last'.events[k] = EvState(Idle))]_vars

C8_Witness ==
  /\ last.op = "stopped" /\ last.fault
  /\ recording[last.inst] = 0
  /\ state[last.inst] = Idle

\* C9: an extraction (of a tick or of a per-sample trigger) that ends after a
\* stopListening() has completed invokes neither the callback nor
\* onMeowDetected and leaves the lifecycle state unchanged.
C9_LateResultDiscarded ==
  [][\A t \in tasks :
       (t.kind \in {"tick", "sample"} /\ t.stale /\ Finished(t))
       => (state' = state /\ ~Delivers(last'.events))]_vars

\* C10: the state is never Processing while a stopListening() or destroy() is
\* suspended in stopAndUnloadAsync.
C10_NoProcessingDuringStop ==
  \A t \in tasks : t.pc \in {"unload", "inStop"} => state[t.inst] # Processing

\* the lifecycle states an instance goes through in one step: the state before
\* it, then every state the step assigned (each assignment is followed by
\* onStateChange)
StateChanges(evs) == SelectSeq(evs, LAMBDA e : e.type = "onStateChange")
StatePath(i) ==
  <<state[i]>> \o [k \in 1..Len(StateChanges(last'.events)) |->
                      StateChanges(last'.events)[k].st]

\* the transitions of the lifecycle and the steps that may take them
AllowedTransition(from, to, op) ==
  \/ to = Idle
  \/ from = Idle /\ to = Recording /\ op \in {"startResume", "started"}
  \/ from = Recording /\ to = Processing /\ op = "tick"
  \/ from = Processing /\ to = Recording /\ op = "tickDone"
  \/ from = Recording /\ to = Error /\ op = "startFailed"

\* C11: the lifecycle state changes only from Idle to Recording (in a start),
\* from Recording to Processing (a tick begins), from Processing to Recording
\* (the tick ends), from Recording to Error (capture failure) and from any
\* state to Idle; Idle is left only by a start, Error entered only from Recording
C11_Transitions ==
  [][\A i \in Inst :
       IF last'.inst = i
         THEN /\ state'[i] = StatePath(i)[Len(StatePath(i))]
              /\ \A k \in 1..(Len(StatePath(i)) - 1) :
                   StatePath(i)[k] # StatePath(i)[k + 1] =>
                     AllowedTransition(StatePath(i)[k], StatePath(i)[k + 1], last'.op)
         ELSE state'[i] = state[i]]_vars

\* ---------------------------------------------------------------------------
\* The started detector left alone: no stopListening() and no destroy(), the
\* timer keeps firing and the status updates keep coming.  Firings and updates
\* are not counted here; a firing takes one of MaxOverlap numbers of its timer,
\* free again when its analysis has finished, and one triggered extraction of
\* the status path is in flight at a time.
\* ---------------------------------------------------------------------------
MaxOverlap == 1
\* startListening() calls
MaxLiveStarts == 1
\* the latest clock reading
MaxNow == Epoch + SimpleMinInterval

LiveTickId(tm, k) == MaxCalls + (tm.id - 1) * MaxOverlap + k
LiveTickIds == (MaxCalls + 1)..(MaxCalls + MaxLiveStarts * MaxOverlap)
LiveSampleId == MaxCalls + MaxLiveStarts * MaxOverlap + 1

liveStart(i) == count < MaxLiveStarts /\ startListening(i)

liveTick(tm) ==
  \E k \in 1..MaxOverlap :
    /\ \A t \in tasks : t.id # LiveTickId(tm, k)
    /\ timerCallback(tm, LiveTickId(tm, k))
    /\ UNCHANGED count

liveSample(h, metering, dt) ==
  /\ now + dt <= MaxNow
  /\ \A t \in tasks : t.id # LiveSampleId
  /\ onRecordingStatusUpdate(h, metering, dt, LiveSampleId)
  /\ UNCHANGED <<count, script>>

LiveNext ==
  \/ getInstance
  \/ \E i \in Inst : liveStart(i)
  \/ \E t \in tasks : startResume(t)
  \/ \E t \in tasks, ok \in BOOL : createDone(t, ok)
  \/ \E t \in tasks, ok \in BOOL : startAsyncDone(t, ok)
  \/ \E tm \in timers : liveTick(tm)
  \/ \E t \in tasks, o \in {"ok", "throw", "nouri"} : tickStatusDone(t, o)
  \/ \E t \in tasks, ok \in BOOL : tickExtractDone(t, ok)
  \/ \E h \in 1..Len(handles), m \in Meterings, dt \in Deltas : liveSample(h, m, dt)
  \/ \E t \in tasks, ok \in BOOL : sampleExtractDone(t, ok)

\* microtasks run; every installed interval timer keeps firing; getStatusAsync
\* and the extraction of an analysis pass return or throw.  Nothing is assumed
\* of an extraction requested by a status update.
LiveFairness ==
  /\ WF_vars(\E t \in tasks : startResume(t))
  /\ \A n \in 1..MaxLiveStarts : WF_vars(\E tm \in timers : tm.id = n /\ liveTick(tm))
  /\ \A id \in LiveTickIds :
       WF_vars(\E t \in tasks :
                 /\ t.id = id
                 /\ \/ \E o \in {"ok", "throw", "nouri"} : tickStatusDone(t, o)
                    \/ \E ok \in BOOL : tickExtractDone(t, ok))

LiveSpec == Init /\ [][LiveNext]_vars /\ LiveFairness

TimerFor(c) == \E tm \in timers : tm.cb = c
TickDelivered(c) == last.op = "tickDone" /\ CallbackCount(last.events, c) >= 1

\* C12: while the detector stays started and the extractions of the analysis
\* passes return or throw, every callback whose timer is installed is invoked
\* by an analysis pass again and again, also while an extraction requested by
\* a status update never returns
C12_CallbackLiveness ==
  \A c \in 1..MaxLiveStarts : TimerFor(c) ~> TickDelivered(c)

\* an analysis pass delivers its event while an extraction of the status path
\* is still outstanding
C12_Witness ==
  /\ \E t \in tasks : t.kind = "sample" /\ t.pc = "extract" /\ t.cb = last.cb
  /\ TickDelivered(last.cb)

\* destroy() has released instance i
Released(i) == i \in 1..created /\ instance # i

\* C13: once destroy() has resolved and no call or analysis pass of the old
\* instance is pending any more (and it was not started again afterwards), the
\* old instance has no installed timer and no open capture handle; the
\* instance that getInstance() then creates is Idle with no timer and no handle
C13_DestroyReleases ==
  /\ \A i \in Inst :
       (Released(i) /\ Quiet(i) /\ ~lateStart[i]) =>
         /\ \A tm \in timers : tm.inst # i
         /\ \A h \in OpenHandles : handles[h].inst # i
  /\ last.op = "getInstance" =>
       /\ state[last.inst] = Idle
       /\ timer[last.inst] = 0
       /\ recording[last.inst] = 0

\* ---------------------------------------------------------------------------
\* The listening detector and its status updates: from the state reached by
\* getInstance() and a completed startListening(callback), the loudness updates
\* and the stopListening() and startListening() calls, MaxTrigCalls of them
\* together with the first start, and setDetectionMode() at any moment.  The
\* interval timer does not take part in the decision on a status update and
\* is left out.
\* ---------------------------------------------------------------------------
MaxTrigCalls == 5
\* the modes that setDetectionMode() is given here
TrigModes == {SIMPLE_AMPLITUDE, ADVANCED_FEATURES, SMART_FILTER}

ListeningDetector ==
  /\ instance = 1
  /\ created = 1
  /\ state = [i \in Inst |-> IF i = 1 THEN Recording ELSE Idle]
  /\ recording = [i \in Inst |-> IF i = 1 THEN 1 ELSE 0]
  /\ timer = [i \in Inst |-> IF i = 1 THEN 1 ELSE 0]
  /\ detectionMode = [i \in Inst |-> SIMPLE_AMPLITUDE]
  /\ lastMeowDetectionTime = [i \in Inst |-> 0]
  /\ handles = <<[inst |-> 1, cb |-> 1, st |-> "open"]>>
  /\ timers = {[id |-> 1, inst |-> 1, cb |-> 1]}
  /\ nTimers = 1
  /\ tasks = {}
  /\ count = 1
  /\ now = Epoch
  /\ last = Step("started", 1, 1, <<>>)
  /\ stopDone = [i \in Inst |-> FALSE]
  /\ racedStart = [i \in Inst |-> FALSE]
  /\ lateStart = [i \in Inst |-> FALSE]
  /\ smartFilter = [i \in Inst |-> SmartMeowFilter]
  /\ adaptiveThreshold = [i \in Inst |-> AdaptiveThreshold]
  /\ combinedFilter = [i \in Inst |-> CombinedFilter]
  /\ simpleFires = [i \in Inst |-> <<>>]
  /\ fed = <<>>

Listening == ListeningDetector /\ script = <<>>

trigSample(h, metering, dt) ==
  /\ count < MaxTrigCalls
  /\ count' = count + 1
  /\ onRecordingStatusUpdate(h, metering, dt, count + 1)
  /\ UNCHANGED script

trigSetDetectionMode(i, mode) ==
  /\ setDetectionModeCall(i, mode)
  /\ UNCHANGED count

trigStop(i) ==
  /\ count < MaxTrigCalls
  /\ count' = count + 1
  /\ stopListeningCall(i, count + 1)

trigStart(i) ==
  /\ count < MaxTrigCalls
  /\ count' = count + 1
  /\ startListeningCall(i, count + 1)

TriggerNext ==
  \/ \E h \in 1..Len(handles), m \in Meterings, dt \in Deltas : trigSample(h, m, dt)
  \/ \E t \in tasks, ok \in BOOL : sampleExtractDone(t, ok)
  \/ \E i \in Inst, mode \in TrigModes : trigSetDetectionMode(i, mode)
  \/ \E i \in Inst : trigStop(i)
  \/ \E t \in tasks, ok \in BOOL : stopListeningDone(t, ok)
  \/ \E i \in Inst : trigStart(i)
  \/ \E t \in tasks : startResume(t)
  \/ \E t \in tasks, ok \in BOOL : startStopDone(t, ok)
  \/ \E t \in tasks, ok \in BOOL : createDone(t, ok)
  \/ \E t \in tasks, ok \in BOOL : startAsyncDone(t, ok)

TriggerSpec == Listening /\ [][TriggerNext]_vars

\* C14: any two triggers accepted in SIMPLE_AMPLITUDE mode are at least
\* 3000 ms apart, whatever stopListening()/startListening() cycles and
\* detection-mode switches lie between them
C14_SimpleMinInterval ==
  \A i \in Inst : \A j, k \in 1..Len(simpleFires[i]) :
    j < k => simpleFires[i][k] - simpleFires[i][j] >= SimpleMinInterval

\* a second trigger accepted in SIMPLE_AMPLITUDE mode, on the capture of a
\* restart
C14_Witness ==
  /\ Len(simpleFires[1]) >= 2
  /\ last.op \in {"sampleDone", "sampleTrigger"}
  /\ last.cb # 1
  /\ simpleFires[1][Len(simpleFires[1])] = now

\* ---------------------------------------------------------------------------
\* The listening detector fed a given sequence of timestamped levels, in its
\* initial SIMPLE_AMPLITUDE mode and with no trigger before.
\* ---------------------------------------------------------------------------
MaxScriptLen == 2
Scenario == <<-50, -45, -35, -28, -32>>
ScriptDeltas == {100, 3000}
BoundaryLevels == {-31, -30, -29}

Timed(levels, dts) == [k \in 1..Len(levels) |-> [metering |-> levels[k], dt |-> dts[k]]]

\* the scenario under every timing, and every short sequence of levels around
\* the threshold
Scripts ==
  {Timed(Scenario, dts) : dts \in [1..Len(Scenario) -> ScriptDeltas]}
  \cup UNION {{Timed(lv, dts) : lv \in [1..n -> BoundaryLevels], dts \in [1..n -> ScriptDeltas]}
                : n \in 1..MaxScriptLen}

ScenarioInit == ListeningDetector /\ script \in Scripts

\* the next level of the sequence arrives in a status update of the capture
feed ==
  /\ script # <<>>
  /\ count' = count + 1
  /\ onRecordingStatusUpdate(1, Head(script).metering, Head(script).dt, count + 1)
  /\ script' = Tail(script)

ScenarioNext ==
  \/ feed
  \/ \E t \in tasks, ok \in BOOL : sampleExtractDone(t, ok)

ScenarioSpec == ScenarioInit /\ [][ScenarioNext]_vars

FedLevels == [k \in 1..Len(fed) |-> fed[k].metering]

\* C15: with no trigger before, the simple strategy fires at no level below
\* -30 dBFS and fires at the first level at or above -30 (-30 itself fires);
\* on the levels -50, -45, -35, -28, -32 it fires at -28 and nowhere else
C15_SimpleThreshold ==
  /\ \A k \in 1..Len(fed) :
       /\ fed[k].fire => fed[k].metering >= -30
       /\ (fed[k].metering >= -30 /\ \A j \in 1..(k - 1) : fed[j].metering < -30)
            => fed[k].fire
  /\ FedLevels = Scenario => \A k \in 1..Len(fed) : fed[k].fire <=> k = 4

\* the whole scenario has been delivered and its fourth level fired
C15_Witness == FedLevels = Scenario /\ fed[4].fire

\* ---------------------------------------------------------------------------
\* The evaluators on their own: a SmartMeowFilter, an AdaptiveThreshold and a
\* CombinedFilter (in slot 1 of the evaluator variables, no detector around
\* them) are given the same sequence of timestamped levels, one level at a time.
\* ---------------------------------------------------------------------------
MaxFilterLen == 4
FilterLevels == {-60, -41, -40, -20}
FilterDeltas == {100, 2500}

\* a step of the level: some samples at the quiet level, then MaxLoud samples
\* at the loud one, at a steady rate
MaxQuiet   == 12
MaxLoud    == 25
StepLevels == [quiet |-> -60, loud |-> -20]
StepDeltas == {100, 1100}
StepInput(n, dt) ==
  [k \in 1..(n + MaxLoud) |->
     [metering |-> IF k <= n THEN StepLevels.quiet ELSE StepLevels.loud, dt |-> dt]]
StepInputs == {StepInput(n, dt) : n \in 1..MaxQuiet, dt \in StepDeltas}

FilterInputs ==
  StepInputs
  \cup UNION {{Timed(lv, dts) : lv \in [1..n -> FilterLevels], dts \in [1..n -> FilterDeltas]}
                : n \in 1..MaxFilterLen}

\* no detector: the three evaluators as their constructors leave them
FiltersAlone ==
  /\ instance = 0
  /\ created = 0
  /\ state = [i \in Inst |-> Idle]
  /\ recording = [i \in Inst |-> 0]
  /\ timer = [i \in Inst |-> 0]
  /\ detectionMode = [i \in Inst |-> SIMPLE_AMPLITUDE]
  /\ lastMeowDetectionTime = [i \in Inst |-> 0]
  /\ handles = <<>>
  /\ timers = {}
  /\ nTimers = 0
  /\ tasks = {}
  /\ count = 0
  /\ now = Epoch
  /\ last = Step("init", 0, 0, <<>>)
  /\ stopDone = [i \in Inst |-> FALSE]
  /\ racedStart = [i \in Inst |-> FALSE]
  /\ lateStart = [i \in Inst |-> FALSE]
  /\ smartFilter = [i \in Inst |-> SmartMeowFilter]
  /\ adaptiveThreshold = [i \in Inst |-> AdaptiveThreshold]
  /\ combinedFilter = [i \in Inst |-> CombinedFilter]
  /\ simpleFires = [i \in Inst |-> <<>>]
  /\ fed = <<>>

FilterInit == FiltersAlone /\ script \in FilterInputs
StepInit   == FiltersAlone /\ script \in StepInputs

\* shouldTriggerDetection(metering), updateAndCheck(metering) and
\* shouldTrigger(metering, 'both') on the next level of the sequence
feedFilters ==
  /\ script # <<>>
  /\ now' = now + Head(script).dt
  /\ LET m  == Head(script).metering
         sm == shouldTriggerDetection(smartFilter[1], m, now')
         ad == updateAndCheck(adaptiveThreshold[1], m, now')
         co == shouldTrigger(combinedFilter[1], m, "both", now')
     IN  /\ smartFilter' = [smartFilter EXCEPT ![1] = sm.f]
         /\ adaptiveThreshold' = [adaptiveThreshold EXCEPT ![1] = ad.f]
         /\ combinedFilter' = [combinedFilter EXCEPT ![1] = co.f]
         /\ fed' = Append(fed, [metering |-> m, smart |-> sm.fire,
                                adaptive |-> ad.fire, combined |-> co.fire,
                                at |-> now'])
  /\ script' = Tail(script)
  /\ UNCHANGED <<instance, created, state, recording, timer, detectionMode,
                 lastMeowDetectionTime, handles, timers, nTimers, tasks, count,
                 last, stopDone, racedStart, lateStart, simpleFires>>

FilterNext == feedFilters

FilterSpec == FilterInit /\ [][FilterNext]_vars

\* a step of the level, delivered to its end
StepNext == feedFilters
StepSpec == StepInit /\ [][StepNext]_vars /\ WF_vars(StepNext)

\* C16: a level below -40 dBFS never makes SmartMeowFilter fire, whatever
\* amplitude history and trigger timestamps it has by then, and never makes
\* CombinedFilter fire in 'both' mode
C16_QuietNeverFires ==
  \A k \in 1..Len(fed) : fed[k].metering < -40 => ~fed[k].smart /\ ~fed[k].combined

\* a level below -40 dBFS arrives at a filter that has a history and has fired
C16_Witness ==
  /\ fed # <<>>
  /\ fed[Len(fed)].metering < -40
  /\ smartFilter[1].triggerHistory # <<>>
  /\ Len(smartFilter[1].amplitudeHistory) >= 3

\* the levels given to the filters, delivered and still to come
Delivered == [k \in 1..Len(fed) |-> fed[k].metering]
Upcoming  == [k \in 1..Len(script) |-> script[k].metering]
StepResponse ==
  \E n \in 1..MaxQuiet :
    Delivered \o Upcoming =
      [k \in 1..(n + MaxLoud) |-> IF k <= n THEN StepLevels.quiet ELSE StepLevels.loud]

FloorRaised == adaptiveThreshold[1].noiseFloor > InitialFloorDb * FloorScale
FiredOnLoud == \E k \in 1..Len(fed) : fed[k].metering = StepLevels.loud /\ fed[k].adaptive
\* the level has not changed within the window isSignificantPeak looks at
Steady(k) ==
  /\ k >= PEAK_WINDOW
  /\ \A j \in (k - PEAK_WINDOW + 1)..k : fed[j].metering = StepLevels.loud
Settled ==
  /\ script = <<>>
  /\ Len(fed) > 20
  /\ \A k \in (Len(fed) - 10)..Len(fed) : ~fed[k].adaptive

MaxSpans == 2
\* rms.mean in hundredths and spectralCentroid.mean in Hz; 0 is a reported zero
\* or an omitted field
ReportedRms      == {0, 1, 5, 6, 10}
ReportedCentroid == {0, 149, 150, 500, 1200, 1201, 2000}
Reported == [rms : ReportedRms, centroid : ReportedCentroid]

AnalysisInit ==
  /\ FiltersAlone
  /\ script \in UNION {[1..n -> Reported] : n \in 1..MaxSpans}

\* extractAudioAnalysis returns the next analysis and analyzeAudio builds its result
analyse ==
  /\ script # <<>>
  /\ fed' = Append(fed, [reported |-> Head(script),
                         result |-> analyzeAudioResult(Head(script))])
  /\ script' = Tail(script)
  /\ UNCHANGED <<instance, created, state, recording, timer, detectionMode,
                 lastMeowDetectionTime, handles, timers, nTimers, tasks, count, now,
                 last, stopDone, racedStart, lateStart, evaluators, simpleFires>>

AnalysisNext == analyse
AnalysisSpec == AnalysisInit /\ [][AnalysisNext]_vars

\* C18: a span is classified as a vocalization iff the reported RMS exceeds
\* 0.05 and the reported spectral centroid lies in [150, 1200] Hz; a span whose
\* reported RMS is 0 or omitted is not classified as a vocalization
C18_BothConditions ==
  \A k \in 1..Len(fed) :
    fed[k].result.isMeow <=>
      /\ fed[k].reported.rms > rmsThreshold
      /\ fed[k].reported.centroid >= spectralCentroidMinThreshold
      /\ fed[k].reported.centroid <= spectralCentroidMaxThreshold

\* the results handed to the caller's callback in the last step
Delivered_results == {last.events[k].res : k \in {j \in 1..Len(last.events) :
                                                   last.events[j].type = "callback"}}

\* C19: every detection event delivered to a callback carries a confidence
\* within [0,1] (hundredths here), on the per-sample path with extracted, basic
\* or mock features and on the deep-analysis path with a result or the fallback
C19_ConfidenceRange ==
  \A r \in Delivered_results : r.confidence >= 0 /\ r.confidence <= 100

\* a per-sample trigger delivers its event with the largest random draw
C19_Witness ==
  /\ last.op = "sampleDone"
  /\ \E r \in Delivered_results : r.confidence = 70 + (99 * 25) \div 100

\* C20: in every emitted event, features of a fallback or mock path (the
\* extraction failed or threw, or there was no capture handle) carry
\* recordingQuality <= 0.7 and extracted features carry recordingQuality >= 0.9
C20_QualityOrdering ==
  \A r \in Delivered_results :
    IF last.fault THEN r.recordingQuality <= 70 ELSE r.recordingQuality >= 90

\* the status callback of this step passed the trigger and the interval gate
SampleOps == {"sampleDone", "sampleTrigger"}
\* the event of a trigger: one invocation of the start callback, isMeow = true,
\* nothing thrown to the caller of the handler
OneMeowEvent(l) ==
  /\ CallbackCount(l.events, l.cb) = 1
  /\ \A k \in 1..Len(l.events) :
       /\ l.events[k].type \in {"callback", "onMeowDetected"}
       /\ l.events[k].res.isMeow
       /\ l.events[k].type = "callback" => l.events[k].cb = l.cb
  /\ ~l.rejected

\* C21: on the per-sample path every trigger that passes the interval gate
\* yields exactly one event with isMeow = true for the start callback once the
\* extraction returns or throws (success, failure, no URI, no capture handle),
\* and nothing is thrown to the caller: the gate is followed at once by the
\* event or by one pending extraction, and a pending extraction ends with the event
C21_OneEventPerTrigger ==
  [][ /\ (lastMeowDetectionTime' # lastMeowDetectionTime \/ simpleFires' # simpleFires)
           => last'.op \in SampleOps
      /\ last'.op = "sampleTrigger"
           => /\ last'.events = <<>>
              /\ \E t \in tasks' \ tasks :
                   /\ tasks' = tasks \cup {t}
                   /\ t.kind = "sample" /\ t.inst = last'.inst /\ t.cb = last'.cb
      /\ \A t \in tasks : (t.kind = "sample" /\ Finished(t)) =>
           /\ last'.op = "sampleDone" /\ last'.cb = t.cb
           /\ tasks' = tasks \ {t}
      /\ last'.op = "sampleDone" => OneMeowEvent(last') ]_vars

\* a trigger with no capture handle, or whose extraction failed, has delivered
\* its event
C21_Witness ==
  /\ last.op = "sampleDone"
  /\ last.fault
  /\ OneMeowEvent(last)
  /\ Len(last.events) = 2

\* the evaluators of detector i
EvaluatorsOf(sf, at, cf, i) ==
  [smartFilter |-> sf[i], adaptiveThreshold |-> at[i], combinedFilter |-> cf[i]]

\* this step is the status callback taking a loudness sample
Evaluated ==
  \/ last'.op \in {"sample", "sampleTrigger"}
  \/ last'.op = "sampleDone" /\ tasks' = tasks

\* C22: setDetectionMode(m) is accepted in every lifecycle state and changes
\* only the detection mode (getDetectionMode() then returns m): state, timer,
\* capture handle, lastMeowDetectionTime and the evaluators stay as they are;
\* and a loudness sample is evaluated by the strategy of the mode in force, i.e.
\* the one set last, with no restart
C22_ModeSwitch ==
  [][ /\ last'.op = "setDetectionMode" =>
           /\ \E m \in DetectionMode :
                detectionMode' = [detectionMode EXCEPT ![last'.inst] = m]
           /\ UNCHANGED <<instance, created, state, recording, timer,
                          lastMeowDetectionTime, handles, timers, nTimers, tasks,
                          now, evaluators, simpleFires>>
      /\ Evaluated =>
           /\ UNCHANGED detectionMode
           /\ \E m \in Meterings :
                LET i == last'.inst
                    v == ShouldTrigger(detectionMode[i], smartFilter[i],
                                       adaptiveThreshold[i], combinedFilter[i], m, now')
                IN  /\ EvaluatorsOf(smartFilter', adaptiveThreshold', combinedFilter', i)
                         = v.after
                    /\ last'.op \in SampleOps => v.fire ]_vars

\* a sample has been evaluated by the Smart filter although the detector was
\* started in the default mode and never restarted
C22_Witness ==
  /\ last.op \in {"sample", "sampleTrigger"}
  /\ detectionMode[last.inst] = SMART_FILTER
  /\ smartFilter[last.inst] # SmartMeowFilter
  /\ state[last.inst] \in {Recording, Processing}

\* ---------------------------------------------------------------------------
\* The listening detector is put in one mode before the first sample and then
\* given a sequence of timestamped levels.
\* ---------------------------------------------------------------------------
ScenarioModes == {SIMPLE_AMPLITUDE, ADVANCED_FEATURES, SMART_FILTER}

chooseMode(mode) ==
  /\ fed = <<>>
  /\ setDetectionModeCall(1, mode)
  /\ UNCHANGED count

ModeNext ==
  \/ \E mode \in ScenarioModes : chooseMode(mode)
  \/ feed
  \/ \E t \in tasks, ok \in BOOL : sampleExtractDone(t, ok)

ModeSpec == ScenarioInit /\ [][ModeNext]_vars

\* what a detector in SIMPLE_AMPLITUDE mode does with level m read at time t
\* when its last trigger was at time lastT (lines 159 and 187-190)
SimpleGate(m, t, lastT) ==
  /\ ShouldTrigger(SIMPLE_AMPLITUDE, SmartMeowFilter, AdaptiveThreshold,
                   CombinedFilter, m, t).fire
  /\ t - lastT >= MinInterval(SIMPLE_AMPLITUDE)

\* lastMeowDetectionTime of that detector after the first k levels delivered
RECURSIVE SimpleLast(_)
SimpleLast(k) ==
  IF k = 0 THEN 0
  ELSE IF SimpleGate(fed[k].metering, fed[k].at, SimpleLast(k - 1))
    THEN fed[k].at
    ELSE SimpleLast(k - 1)

SimpleVerdict(k) == SimpleGate(fed[k].metering, fed[k].at, SimpleLast(k - 1))

\* C23: a detector in ADVANCED_FEATURES mode emits per-sample trigger events
\* at exactly the samples at which a detector in SIMPLE_AMPLITUDE mode does,
\* for every timestamped sequence of levels (same -30 dBFS threshold, same
\* 3000 ms minimum interval)
C23_AdvancedIsSimple ==
  detectionMode[1] = ADVANCED_FEATURES =>
    \A k \in 1..Len(fed) : fed[k].fire <=> SimpleVerdict(k)

\* ---------------------------------------------------------------------------
\* The evaluators on long inputs: a short pattern of levels repeated at a
\* steady rate until every history buffer has overflowed.
\* ---------------------------------------------------------------------------
MaxSamples == 104
PatternLevels == {-60, -35, -20}
PatternDeltas == {1100, 2500}
Patterns == UNION {[1..n -> PatternLevels] : n \in 1..3}
Periodic(p, dt) ==
  [k \in 1..MaxSamples |-> [metering |-> p[((k - 1) % Len(p)) + 1], dt |-> dt]]
LongInputs == {Periodic(p, dt) : p \in Patterns, dt \in PatternDeltas}

LongInit == FiltersAlone /\ script \in LongInputs
LongNext == feedFilters
LongSpec == LongInit /\ [][LongNext]_vars

\* the last n entries of q, in order
LastN(q, n) == IF Len(q) <= n THEN q ELSE SubSeq(q, Len(q) - n + 1, Len(q))
\* what has been appended to each buffer of the standalone evaluators so far
Taken(keep(_), val(_)) ==
  LET sel == SelectSeq(fed, keep) IN [k \in 1..Len(sel) |-> val(sel[k])]
AppendedAmplitudes == Taken(LAMBDA e : ~TooQuiet(e.metering), LAMBDA e : e.metering)
AppendedTriggers   == Taken(LAMBDA e : e.smart, LAMBDA e : e.at)
AppendedValues     == Taken(LAMBDA e : TRUE, LAMBDA e : e.metering)
AppendedPeaks      == Taken(LAMBDA e : e.adaptive, LAMBDA e : e.metering)

\* C24: after any sequence of samples no history buffer exceeds its capacity
\* (Smart: 10 amplitudes, 10 trigger times; Adaptive: 100 values, 5 peaks;
\* the same inside CombinedFilter) and each buffer holds the most recently
\* appended entries in arrival order
C24_BoundedBuffers ==
  /\ smartFilter[1].amplitudeHistory = LastN(AppendedAmplitudes, 10)
  /\ smartFilter[1].triggerHistory = LastN(AppendedTriggers, 10)
  /\ adaptiveThreshold[1].recentValues = LastN(AppendedValues, 100)
  /\ adaptiveThreshold[1].recentPeaks = LastN(AppendedPeaks, 5)
  /\ \A f \in {smartFilter[1], combinedFilter[1].smartFilter} :
       Len(f.amplitudeHistory) <= 10 /\ Len(f.triggerHistory) <= 10
  /\ \A f \in {adaptiveThreshold[1], combinedFilter[1].adaptiveThreshold} :
       Len(f.recentValues) <= 100 /\ Len(f.recentPeaks) <= 5

\* every buffer has had more entries appended than it can hold
C24_Witness ==
  /\ Len(AppendedAmplitudes) > 10
  /\ Len(AppendedTriggers) > 10
  /\ Len(AppendedValues) > 100
  /\ Len(AppendedPeaks) > 5

\* C25: SmartMeowFilter enforces its minimum trigger interval: on every
\* timestamped sequence of samples shouldTriggerDetection never returns true
\* twice less than 2000 ms apart
C25_SmartAntiFlood ==
  \A j, k \in 1..Len(fed) :
    (j < k /\ fed[j].smart /\ fed[k].smart) => fed[k].at - fed[j].at >= MIN_INTERVAL

\* the samples before the k-th within the window of the last PEAK_WINDOW samples
Preceding(k) ==
  LET from == IF k - PEAK_WINDOW + 1 < 1 THEN 1 ELSE k - PEAK_WINDOW + 1
  IN  [j \in 1..(k - from) |-> fed[from + j - 1].metering]
\* at least 3 dB above their maximum or at least 10 dB above their mean
PeakOver(prev, m) ==
  \/ m >= MaxOf(prev) + 3
  \/ m * Len(prev) >= Sum(prev) + 10 * Len(prev)
\* the sample just delivered is above noise floor + margin
AboveThreshold ==
  LET f == adaptiveThreshold'[1]
  IN  fed'[Len(fed')].metering * FloorScale
        > f.noiseFloor + calculateDynamicMargin(f.recentValues) * FloorScale

\* C26: AdaptiveThreshold.updateAndCheck fires only if the sample exceeds
\* noise floor + margin, is a significant peak relative to the last 10 samples
\* (at least 3 dB above their maximum or at least 10 dB above their mean) and
\* at least 1000 ms have passed since its last fire; so it never fires twice
\* within 1000 ms and never on a sample that is not above the preceding ones
C26_AdaptiveFires ==
  /\ [](\A k \in 1..Len(fed) : fed[k].adaptive =>
          /\ \A j \in 1..(k - 1) : fed[j].adaptive => fed[k].at - fed[j].at >= Debounce
          /\ k > 1 => PeakOver(Preceding(k), fed[k].metering))
  /\ [][fed'[Len(fed')].adaptive => AboveThreshold]_vars

\* C27: in 'both' mode CombinedFilter fires on a sample iff its Smart and its
\* Adaptive sub-evaluator both fire on it, and the sub-evaluators behave as
\* standalone ones given the same sequence: the samples at which it fires are
\* the intersection of those at which a standalone SmartMeowFilter and a
\* standalone AdaptiveThreshold fire
C27_CombinedIsIntersection ==
  /\ \A k \in 1..Len(fed) : fed[k].combined <=> (fed[k].smart /\ fed[k].adaptive)
  /\ combinedFilter[1].smartFilter = smartFilter[1]
  /\ combinedFilter[1].adaptiveThreshold = adaptiveThreshold[1]

\* the combination has fired on one sample and has stayed silent on another
\* at which only one of the two fired
C27_Witness ==
  /\ \E k \in 1..Len(fed) : fed[k].combined
  /\ \E k \in 1..Len(fed) : fed[k].smart /\ ~fed[k].adaptive /\ ~fed[k].combined

\* ---- the MeowDetector component around the module ----
\* the component passes the same consumer handler (its onMeowDetected prop) on
\* both routes: config.onMeowDetected given to getInstance, and meowCallback
\* given to startListening; each invocation of either calls the handler once
ConsumerRoutes == {"callback", "onMeowDetected"}
ConsumerInvocations(evs) ==
  Cardinality({k \in 1..Len(evs) : evs[k].type \in ConsumerRoutes})

\* C28: for every event the module emits (per-sample trigger or analysis
\* tick) the onMeowDetected handler supplied to the MeowDetector component is
\* invoked at most once
C28_AtMostOnce == ConsumerInvocations(last.events) <= 1

\* the analysis passes of detector i that have set Processing and have not
\* delivered their event yet
PassesInFlight(i) == {t \in tasks : t.kind = "tick" /\ t.inst = i}

\* C29: whenever a deep-analysis pass is in flight, from the tick that sets
\* Processing until that tick has delivered its event, the state is
\* Processing, also when passes of consecutive ticks overlap
C29_ProcessingWhileInFlight ==
  \A i \in Inst : PassesInFlight(i) # {} => state[i] = Processing

\* C30: whenever the detector is in state Error it holds no capture handle
\* and has no active timer: a start that fails when the recording is created or
\* when it is started leaves nothing open
C30_ErrorHoldsNothing ==
  \A i \in Inst : state[i] = Error =>
    /\ recording[i] = 0
    /\ timer[i] = 0
    /\ \A h \in OpenHandles : handles[h].inst # i
====
